---- MODULE Spec2Model ----
(***************************************************************************)
(* Greenhouse MCP server: the API client's request pipeline                *)
(* (src/src/greenhouse_client.py) and the tool adapter                     *)
(* (src/src/greenhouse_mcp.py).                                            *)
(*                                                                         *)
(* Time is counted in whole seconds.  Tool calls are asyncio tasks on one  *)
(* event loop: a task runs without interruption from one await to the      *)
(* next, and time.sleep keeps the loop's only thread, so that no other     *)
(* task runs until the sleep returns.                                      *)
(*                                                                         *)
(* Python values: None is <<>> and a supplied optional value v is <<v>>;   *)
(* a dict is a function from its keys.                                     *)
(***************************************************************************)
EXTENDS Integers, Sequences, FiniteSets, TLC

\* ------------------------------------------------------------ constants
\* GreenhouseClient.__init__: self._rate_limit_window, self._rate_limit_max
rate_limit_window == 10
rate_limit_max == 50
\* _make_request: response.headers.get("Retry-After", 10)
DefaultRetryAfter == 10

\* ------------------------------------------------------------ bounds
\* seconds the clock may advance in a run of _rate_limit alone
MaxTime == 12
\* cap on the request counter (it is unbounded in the code)
MaxCount == 52
\* seconds the clock may advance in a run of _make_request alone and in a
\* run with concurrent calls
MaxCallTime == 11
\* 429 responses the server gives to one call
Max429 == 1
\* tool calls made in a run of the event loop with its tools
MaxCalls == 2
\* seconds the clock may advance in a run of the event loop with its tools
MaxLoopTime == 4

\* time.time() when the process starts: Unix time, far more than one window
\* past the 0 that __init__ stores in _last_request_time
StartTime == rate_limit_window + 1

Tasks == {"a", "b"}
\* the single caller of the harnesses of _rate_limit and _make_request
Caller == "a"

VARIABLES
    now,                \* time.time()
    env_key,            \* GREENHOUSE_API_KEY is set in the environment
    client,             \* greenhouse_mcp.client: "None" or "Client"
    constructions,      \* GreenhouseClient objects constructed so far
    request_count,      \* GreenhouseClient._request_count
    last_request_time,  \* GreenhouseClient._last_request_time
    calls,              \* tool calls started so far
    pc,                 \* pc[t]: where task t stands
    call,               \* call[t]: the tool call task t serves
    req,                \* req[t]: the arguments of task t's _make_request
    attempts,           \* attempts[t]: HTTP requests task t's call has put on the wire
    throttled,          \* throttled[t]: 429 responses task t's call has received
    wire,               \* wire[t]: the distinct requests task t's call has put on the wire
    waits,              \* waits[t]: the sleeps of task t since its latest response (or its start)
    last_status,        \* last_status[t]: status of the latest response to task t's call, -1 if none
    client_result,      \* client_result[t]: how the Client call ended
    tool_result,        \* tool_result[t]: how the tool call ended
    log,                \* log[t]: what the tool wrote to its call context
    wakeAt,             \* when the time.sleep in progress is due to return
    waited,             \* seconds of sleep asked for by the latest pass of the limiter
    passed,             \* passes of the limiter since the window last restarted
    probeStart,         \* observer: start of the observed interval, -1 if none, -2 if over
    probeCount,         \* observer: passes of the limiter counted in the interval
    method,             \* parameter harness: the Client method under test
    args,               \* parameter harness: its arguments
    built               \* parameter harness: the request it handed to _make_request

envVars == <<env_key, client, constructions>>
limiterVars == <<request_count, last_request_time, wakeAt, waited, passed>>
taskVars == <<pc, call, req, attempts, throttled, wire, waits, last_status, client_result,
              tool_result, log>>
probeVars == <<probeStart, probeCount>>
harnessVars == <<method, args, built>>
vars == <<now, env_key, client, constructions, request_count, last_request_time, calls,
          pc, call, req, attempts, throttled, wire, waits, last_status, client_result,
          tool_result, log, wakeAt, waited, passed, probeStart, probeCount, method, args, built>>

\* ------------------------------------------------------------ Python values
None == <<>>
Some(v) == <<v>>

\* truth value of an Optional[str], Optional[int], Optional[List]
TruthyStr(a) == a # None /\ a[1] # ""
TruthyInt(a) == a # None /\ a[1] # 0
TruthyList(a) == a # None /\ a[1] # <<>>

\* str(i) of a small integer
DigitStr(i) ==
    CASE i = 0 -> "0" [] i = 1 -> "1" [] i = 2 -> "2" [] i = 3 -> "3" [] i = 4 -> "4"
      [] i = 5 -> "5" [] i = 6 -> "6" [] i = 7 -> "7" [] i = 8 -> "8" [] i = 9 -> "9"

\* int(s) of a decimal numeral
IntOfStr(s) ==
    CASE s = "0" -> 0 [] s = "1" -> 1 [] s = "2" -> 2 [] s = "3" -> 3 [] s = "4" -> 4
      [] s = "5" -> 5 [] s = "6" -> 6 [] s = "7" -> 7 [] s = "8" -> 8 [] s = "9" -> 9

\* ",".join(map(str, ids)): the characters of the joined string
RECURSIVE JoinIds(_)
JoinIds(ids) ==
    IF ids = <<>> THEN <<>>
    ELSE IF Len(ids) = 1 THEN <<DigitStr(ids[1])>>
    ELSE <<DigitStr(ids[1]), ",">> \o JoinIds(Tail(ids))

\* d[key] = value
DictSet(d, key, value) == (key :> value) @@ d

\* if cond: d[key] = value
SetIf(cond, d, key, value) == IF cond THEN DictSet(d, key, value) ELSE d

\* ------------------------------------------------------------ Client endpoint methods
\* the arguments a Client method hands to _make_request
Request(m, e, p, j) == [method |-> m, endpoint |-> e, params |-> p, json |-> j]

\* params = {"per_page": per_page, "page": page}
PageParams(per_page, page) == DictSet(DictSet(<<>>, "per_page", per_page), "page", page)

list_jobs(per_page, page, created_before, created_after, status) ==
    LET p0 == PageParams(per_page, page)
        p1 == SetIf(TruthyStr(created_before), p0, "created_before", created_before[1])
        p2 == SetIf(TruthyStr(created_after), p1, "created_after", created_after[1])
        p3 == SetIf(TruthyStr(status), p2, "status", status[1])
    IN  Request("GET", <<"jobs">>, Some(p3), None)

get_job(job_id) == Request("GET", <<"jobs", job_id>>, None, None)

list_candidates(per_page, page, created_before, created_after, email, candidate_ids) ==
    LET p0 == PageParams(per_page, page)
        p1 == SetIf(TruthyStr(created_before), p0, "created_before", created_before[1])
        p2 == SetIf(TruthyStr(created_after), p1, "created_after", created_after[1])
        p3 == SetIf(TruthyStr(email), p2, "email", email[1])
        p4 == SetIf(TruthyList(candidate_ids), p3, "candidate_ids", JoinIds(candidate_ids[1]))
    IN  Request("GET", <<"candidates">>, Some(p4), None)

get_candidate(candidate_id) == Request("GET", <<"candidates", candidate_id>>, None, None)

create_candidate(candidate_data) ==
    Request("POST", <<"candidates">>, None, Some(candidate_data))

update_candidate(candidate_id, candidate_data) ==
    Request("PATCH", <<"candidates", candidate_id>>, None, Some(candidate_data))

list_applications(per_page, page, created_before, created_after, job_id, candidate_id, status) ==
    LET p0 == PageParams(per_page, page)
        p1 == SetIf(TruthyStr(created_before), p0, "created_before", created_before[1])
        p2 == SetIf(TruthyStr(created_after), p1, "created_after", created_after[1])
        p3 == SetIf(TruthyInt(job_id), p2, "job_id", job_id[1])
        p4 == SetIf(TruthyInt(candidate_id), p3, "candidate_id", candidate_id[1])
        p5 == SetIf(TruthyStr(status), p4, "status", status[1])
    IN  Request("GET", <<"applications">>, Some(p5), None)

get_application(application_id) ==
    Request("GET", <<"applications", application_id>>, None, None)

advance_application(application_id, from_stage_id, to_stage_id) ==
    LET d0 == DictSet(<<>>, "from_stage_id", from_stage_id)
        d1 == SetIf(TruthyInt(to_stage_id), d0, "to_stage_id", to_stage_id[1])
    IN  Request("POST", <<"applications", application_id, "advance">>, None, Some(d1))

reject_application(application_id, rejection_reason_id, notes, rejection_email_id) ==
    LET d1 == SetIf(TruthyInt(rejection_reason_id), <<>>, "rejection_reason_id",
                    rejection_reason_id[1])
        d2 == SetIf(TruthyStr(notes), d1, "notes", notes[1])
        d3 == SetIf(TruthyInt(rejection_email_id), d2, "rejection_email_send_email_at",
                    rejection_email_id[1])
    IN  Request("POST", <<"applications", application_id, "reject">>, None, Some(d3))

add_note_to_candidate(candidate_id, body, visibility) ==
    Request("POST", <<"candidates", candidate_id, "activity_feed", "notes">>, None,
            Some(DictSet(DictSet(<<>>, "body", body), "visibility", visibility)))

add_note_to_application(application_id, body, visibility) ==
    Request("POST", <<"applications", application_id, "notes">>, None,
            Some(DictSet(DictSet(<<>>, "body", body), "visibility", visibility)))

list_departments(per_page, page) ==
    Request("GET", <<"departments">>, Some(PageParams(per_page, page)), None)

list_offices(per_page, page) ==
    Request("GET", <<"offices">>, Some(PageParams(per_page, page)), None)

\* params built with the email key whether or not an email was given
list_users_all_keys(per_page, page, email) ==
    Request("GET", <<"users">>, Some(DictSet(PageParams(per_page, page), "email", email)), None)

list_users(per_page, page, email) ==
    LET p0 == PageParams(per_page, page)
        p1 == SetIf(TruthyStr(email), p0, "email", email[1])
    IN  Request("GET", <<"users">>, Some(p1), None)

\* the methods class GreenhouseClient defines
ClientMethods ==
    {"list_jobs", "get_job", "list_candidates", "get_candidate", "create_candidate",
     "update_candidate", "list_applications", "get_application", "advance_application",
     "reject_application", "add_note_to_candidate", "add_note_to_application",
     "list_departments", "list_offices", "list_users"}

\* ------------------------------------------------------------ tools
\* the functions greenhouse_mcp.py registers with @mcp.tool
ToolNames ==
    {"list_jobs", "get_job", "list_candidates", "get_candidate", "create_candidate",
     "update_candidate", "list_applications", "get_application", "advance_application",
     "reject_application", "add_note_to_candidate", "add_note_to_application",
     "list_departments", "list_offices", "list_users", "list_job_stages", "get_job_stage"}

\* the attribute of gh_client each tool calls
ForwardsTo(tool) == tool

\* tool create_candidate: candidate_data
CandidateData(a) ==
    LET d0 == DictSet(DictSet(<<>>, "first_name", a.first_name), "last_name", a.last_name)
        d1 == SetIf(TruthyStr(a.email), d0, "email_addresses",
                    <<[value |-> a.email[1], type |-> "personal"]>>)
        d2 == SetIf(TruthyStr(a.phone), d1, "phone_numbers",
                    <<[value |-> a.phone[1], type |-> "mobile"]>>)
        d3 == SetIf(TruthyStr(a.company), d2, "company", a.company[1])
        d4 == SetIf(TruthyStr(a.title), d3, "title", a.title[1])
        d5 == SetIf(TruthyList(a.tags), d4, "tags", a.tags[1])
    IN  d5

\* tool update_candidate: update_data
UpdateData(a) ==
    LET d0 == SetIf(TruthyStr(a.opt_first_name), <<>>, "first_name", a.opt_first_name[1])
        d1 == SetIf(TruthyStr(a.opt_last_name), d0, "last_name", a.opt_last_name[1])
        d2 == SetIf(TruthyStr(a.email), d1, "email_addresses",
                    <<[value |-> a.email[1], type |-> "personal"]>>)
        d3 == SetIf(TruthyStr(a.phone), d2, "phone_numbers",
                    <<[value |-> a.phone[1], type |-> "mobile"]>>)
        d4 == SetIf(TruthyStr(a.company), d3, "company", a.company[1])
        d5 == SetIf(TruthyStr(a.title), d4, "title", a.title[1])
        d6 == SetIf(TruthyList(a.tags), d5, "tags", a.tags[1])
    IN  d6

\* the Client call of each tool, from the tool's arguments a
ToolRequest(tool, a) ==
    CASE tool = "list_jobs" ->
           list_jobs(a.per_page, a.page, a.created_before, a.created_after, a.status)
      [] tool = "get_job" -> get_job(a.job_id[1])
      [] tool = "list_candidates" ->
           list_candidates(a.per_page, a.page, a.created_before, a.created_after, a.email,
                           a.candidate_ids)
      [] tool = "get_candidate" -> get_candidate(a.candidate_id[1])
      [] tool = "create_candidate" -> create_candidate(CandidateData(a))
      [] tool = "update_candidate" -> update_candidate(a.candidate_id[1], UpdateData(a))
      [] tool = "list_applications" ->
           list_applications(a.per_page, a.page, a.created_before, a.created_after, a.job_id,
                             a.candidate_id, a.status)
      [] tool = "get_application" -> get_application(a.application_id)
      [] tool = "advance_application" ->
           advance_application(a.application_id, a.from_stage_id, a.to_stage_id)
      [] tool = "reject_application" ->
           reject_application(a.application_id, a.rejection_reason_id, a.notes, None)
      [] tool = "add_note_to_candidate" ->
           add_note_to_candidate(a.candidate_id[1], a.note, a.visibility)
      [] tool = "add_note_to_application" ->
           add_note_to_application(a.application_id, a.note, a.visibility)
      [] tool = "list_departments" -> list_departments(a.per_page, a.page)
      [] tool = "list_offices" -> list_offices(a.per_page, a.page)
      [] tool = "list_users" -> list_users(a.per_page, a.page, a.email)

\* a tool call's arguments with every optional one left out
DefaultArgs ==
    [per_page |-> 50, page |-> 1, status |-> None, created_after |-> None,
     created_before |-> None, email |-> None, candidate_ids |-> None, job_id |-> None,
     candidate_id |-> None, application_id |-> 5, job_stage_id |-> 3, from_stage_id |-> 10,
     to_stage_id |-> None, rejection_reason_id |-> None, notes |-> None, note |-> "hi",
     visibility |-> "private", first_name |-> "Ada", last_name |-> "Lovelace",
     opt_first_name |-> None, opt_last_name |-> None, phone |-> None, company |-> None,
     title |-> None, tags |-> None]

\* the arguments of a call of an id-taking tool
IdArgs == [DefaultArgs EXCEPT !.job_id = Some(7), !.candidate_id = Some(8)]

\* ------------------------------------------------------------ the event loop
SleepStates == {"rate_wait", "retry_wait"}

\* time.sleep is a blocking call: while a task sleeps, the event loop runs no
\* other task
LoopFree(t) == \A u \in Tasks \ {t} : pc[u] \notin SleepStates

NoCall == [tool |-> "none", ctx |-> FALSE]
NoRequest == Request("none", <<>>, None, None)
NoResult == [kind |-> "none", detail |-> "none", status |-> 0]
Returned(what, status) == [kind |-> "returned", detail |-> what, status |-> status]
Raised(error, status) == [kind |-> "raised", detail |-> error, status |-> status]

\* ------------------------------------------------------------ _rate_limit
\* line 32: the window has run out
WindowExpired(current_time) ==
    current_time - last_request_time > rate_limit_window

\* a sleep one second short of the end of the window
SleepTimeShort(current_time, window_start) ==
    rate_limit_window - (current_time - window_start) - 1

\* the elapsed time added to the window instead of taken from it
SleepTimePlusElapsed(current_time, window_start) ==
    rate_limit_window + (current_time - window_start)

\* line 37
SleepTime(current_time, window_start) ==
    rate_limit_window - (current_time - window_start)

\* a window check that restarts the window and keeps the old count
LimiterCheckKeepCount(current_time) ==
    LET expired == WindowExpired(current_time)
        l == IF expired THEN current_time ELSE last_request_time
        s == SleepTime(current_time, l)
    IN  [count |-> request_count, last |-> l, sleep_time |-> s,
         must_sleep |-> (request_count >= rate_limit_max /\ s > 0)]

\* lines 31-38: the state after the window check, and whether to sleep
LimiterCheck(current_time) ==
    LET expired == WindowExpired(current_time)
        c == IF expired THEN 0 ELSE request_count
        l == IF expired THEN current_time ELSE last_request_time
        s == SleepTime(current_time, l)
    IN  [count |-> c, last |-> l, sleep_time |-> s,
         must_sleep |-> (c >= rate_limit_max /\ s > 0)]

\* line 40: the counter after the sleep; line 43 then adds the call
CountAfterSleep == 0

\* a call that is let through without being counted once the window is half full
IncrementLossy(count) == IF 2 * count >= rate_limit_max THEN count ELSE count + 1

\* line 43
Increment(count) == count + 1

\* the limiter's passes since the window last restarted (observer)
CountPass(t) ==
    IF pc'[t] \in SleepStates
    THEN UNCHANGED passed
    ELSE passed' = IF last_request_time' # last_request_time THEN 1 ELSE passed + 1

\* lines 31-43 up to the sleep or, without one, to the return;
\* onward is the caller's position once _rate_limit has returned
EnterLimiter(t, onward) ==
    LET r == LimiterCheck(now) IN
    /\ last_request_time' = r.last
    /\ IF r.must_sleep
       THEN /\ request_count' = r.count
            /\ wakeAt' = now + r.sleep_time
            /\ waited' = r.sleep_time
            /\ pc' = [pc EXCEPT ![t] = "rate_wait"]
       ELSE /\ request_count' = Increment(r.count)
            /\ waited' = 0
            /\ pc' = [pc EXCEPT ![t] = onward]
            /\ UNCHANGED wakeAt
    /\ CountPass(t)

\* lines 39-43: time.sleep returns (no earlier than asked), the window restarts
LeaveLimiter(t, onward) ==
    /\ pc[t] = "rate_wait"
    /\ now >= wakeAt
    /\ request_count' = Increment(CountAfterSleep)
    /\ last_request_time' = now
    /\ pc' = [pc EXCEPT ![t] = onward]
    /\ UNCHANGED <<wakeAt, waited>>
    /\ CountPass(t)

\* ------------------------------------------------------------ the clock
Tick(limit) ==
    /\ now < StartTime + limit
    /\ now' = now + 1
    /\ UNCHANGED <<envVars, limiterVars, calls, taskVars, harnessVars>>

\* ------------------------------------------------------------ _make_request
\* the response of client.request: a status (0: the request raised a transport
\* error, such as a timeout) and the Retry-After header, which the service
\* sends as a number of seconds
Statuses == {0, 200, 204, 404, 429, 500}
RetryAfterHeaders == {None, Some("0"), Some("1")}
Responses == [status : Statuses, retry_after : RetryAfterHeaders]

\* a missing header read as no wait at all
RetryAfterNoDefault(resp) ==
    IF resp.retry_after = None THEN 0 ELSE IntOfStr(resp.retry_after[1])

\* line 67: int(response.headers.get("Retry-After", 10))
RetryAfter(resp) ==
    IF resp.retry_after = None THEN DefaultRetryAfter ELSE IntOfStr(resp.retry_after[1])

\* line 66
IsThrottled(resp) == resp.status = 429

\* only a 5xx status raises
IsServerError(status) == status >= 500 /\ status <= 599

\* line 71: raise_for_status raises on a 4xx or 5xx status
IsErrorStatus(status) == status >= 400 /\ status <= 599

\* a 204 handled like any other success: its body is parsed
IsNoContentNever(status) == FALSE

\* line 73: if response.status_code == 204
IsNoContent(status) == status = 204

\* lines 57-76 for a response that is not a 429: how _make_request ends
\* ("empty_record" is the literal {}, "json_body" the value of response.json())
ResponseOutcome(resp) ==
    IF resp.status = 0 THEN Raised("TransportError", 0)
    ELSE IF IsErrorStatus(resp.status) THEN Raised("HTTPStatusError", resp.status)
    ELSE IF IsNoContent(resp.status) THEN Returned("empty_record", resp.status)
    ELSE Returned("json_body", resp.status)

\* a retry that passes on the method and the endpoint alone
RetryRequestBare(r) == Request(r.method, r.endpoint, None, None)

\* line 69: the arguments of the recursive call
RetryRequest(r) == Request(r.method, r.endpoint, r.params, r.json)

\* the request goes on the wire once _rate_limit has returned (observer)
NoteSend(t) ==
    IF pc'[t] = "await"
    THEN /\ attempts' = [attempts EXCEPT ![t] = @ + 1]
         /\ wire' = [wire EXCEPT ![t] = @ \cup {req'[t]}]
    ELSE UNCHANGED <<attempts, wire>>

\* the sleeps of a task since its latest response (observer)
NoteRateWait(t, before) ==
    waits' = [waits EXCEPT ![t] =
                 IF pc'[t] = "rate_wait"
                 THEN Append(before, [kind |-> "rate", secs |-> waited', header |-> None])
                 ELSE before]

\* lines 52-57: _make_request from its start to the sleep in _rate_limit or to
\* the await of client.request
BeginRequest(t, r) ==
    /\ req' = [req EXCEPT ![t] = r]
    /\ EnterLimiter(t, "await")
    /\ NoteSend(t)
    /\ NoteRateWait(t, <<>>)
    /\ throttled' = [throttled EXCEPT ![t] = 0]

\* ------------------------------------------------------------ the tool adapter
\* an except clause that returns an empty result instead of raising
AdapterSwallow(r) == IF r.kind = "raised" THEN Returned("empty_record", 0) ELSE r

\* try: ... return result / except Exception as e: ...; raise
AdapterOutcome(r) == r

\* if ctx: ctx.info(...) / if ctx: ctx.error(...)
AdapterLog(r, ctx) ==
    IF ~ctx THEN "none" ELSE IF r.kind = "raised" THEN "error" ELSE "info"

\* the Client call ends with r: the rest of the tool function, if a tool made it
Finish(t, c, r) ==
    /\ client_result' = [client_result EXCEPT ![t] = r]
    /\ tool_result' = [tool_result EXCEPT ![t] =
                          IF c.tool = "none" THEN NoResult ELSE AdapterOutcome(r)]
    /\ log' = [log EXCEPT ![t] = IF c.tool = "none" THEN "none" ELSE AdapterLog(r, c.ctx)]

\* get_client() raises: there is no client and no API key
NoClient == client = "None" /\ ~env_key

\* a get_client that constructs a client at every call
GetClientFresh ==
    /\ client' = "Client"
    /\ constructions' = constructions + 1

\* get_client(), when it returns
GetClient ==
    IF client = "None"
    THEN /\ client' = "Client"
         /\ constructions' = constructions + 1
    ELSE UNCHANGED <<client, constructions>>

\* a tool function from its call to its first await, or to its end if it raises
\* before: get_client(), the attribute of gh_client, the Client method
CallTool(t, tool, ctx, a) ==
    /\ pc[t] = "idle"
    /\ LoopFree(t)
    /\ call' = [call EXCEPT ![t] = [tool |-> tool, ctx |-> ctx]]
    /\ UNCHANGED <<now, env_key, probeVars, harnessVars, last_status>>
    /\ IF NoClient
       THEN /\ pc' = [pc EXCEPT ![t] = "done"]
            /\ client_result' = client_result
            /\ tool_result' = [tool_result EXCEPT ![t] = AdapterOutcome(Raised("ValueError", 0))]
            /\ log' = [log EXCEPT ![t] = AdapterLog(Raised("ValueError", 0), ctx)]
            /\ UNCHANGED <<client, constructions, limiterVars, req, attempts, throttled,
                           wire, waits>>
       ELSE /\ GetClient
            /\ IF ForwardsTo(tool) \notin ClientMethods
               THEN /\ pc' = [pc EXCEPT ![t] = "done"]
                    /\ Finish(t, [tool |-> tool, ctx |-> ctx], Raised("AttributeError", 0))
                    /\ UNCHANGED <<limiterVars, req, attempts, throttled, wire, waits>>
               ELSE /\ BeginRequest(t, ToolRequest(tool, a))
                    /\ UNCHANGED <<client_result, tool_result, log>>

\* lines 57-76: the response arrives and _make_request resumes
OnResponse(t, resp) ==
    /\ pc[t] = "await"
    /\ LoopFree(t)
    /\ IsThrottled(resp) => throttled[t] < Max429
    /\ last_status' = [last_status EXCEPT ![t] = resp.status]
    /\ UNCHANGED <<now, envVars, calls, call, req, attempts, wire, request_count,
                   last_request_time, waited, passed, probeVars, harnessVars>>
    /\ IF IsThrottled(resp)
       THEN /\ pc' = [pc EXCEPT ![t] = "retry_wait"]
            /\ wakeAt' = now + RetryAfter(resp)
            /\ throttled' = [throttled EXCEPT ![t] = @ + 1]
            /\ waits' = [waits EXCEPT ![t] = <<[kind |-> "retry", secs |-> RetryAfter(resp),
                                                header |-> resp.retry_after]>>]
            /\ UNCHANGED <<client_result, tool_result, log>>
       ELSE /\ pc' = [pc EXCEPT ![t] = "done"]
            /\ Finish(t, call[t], ResponseOutcome(resp))
            /\ UNCHANGED <<wakeAt, throttled, waits>>

\* a retry that sends the request again without calling _rate_limit
WakeUpRetryUncharged(t) ==
    /\ pc[t] \in SleepStates
    /\ now >= wakeAt
    /\ UNCHANGED <<now, envVars, calls, call, throttled, last_status, client_result,
                   tool_result, log, probeVars, harnessVars>>
    /\ IF pc[t] = "retry_wait"
       THEN /\ req' = [req EXCEPT ![t] = RetryRequest(req[t])]
            /\ pc' = [pc EXCEPT ![t] = "await"]
            /\ UNCHANGED limiterVars
            /\ NoteSend(t)
            /\ NoteRateWait(t, waits[t])
       ELSE /\ LeaveLimiter(t, "await")
            /\ UNCHANGED req
            /\ NoteSend(t)
            /\ UNCHANGED waits

\* a time.sleep returns: after a 429 the recursive _make_request starts (line
\* 69), in _rate_limit the window restarts and the request is sent
WakeUp(t) ==
    /\ pc[t] \in SleepStates
    /\ now >= wakeAt
    /\ UNCHANGED <<now, envVars, calls, call, throttled, last_status, client_result,
                   tool_result, log, probeVars, harnessVars>>
    /\ IF pc[t] = "retry_wait"
       THEN /\ req' = [req EXCEPT ![t] = RetryRequest(req[t])]
            /\ EnterLimiter(t, "await")
            /\ NoteSend(t)
            /\ NoteRateWait(t, waits[t])
       ELSE /\ LeaveLimiter(t, "await")
            /\ UNCHANGED req
            /\ NoteSend(t)
            /\ UNCHANGED waits

\* the caller takes the outcome of the call
Return(t) ==
    /\ pc[t] = "done"
    /\ LoopFree(t)
    /\ pc' = [pc EXCEPT ![t] = "idle"]
    /\ call' = [call EXCEPT ![t] = NoCall]
    /\ req' = [req EXCEPT ![t] = NoRequest]
    /\ attempts' = [attempts EXCEPT ![t] = 0]
    /\ throttled' = [throttled EXCEPT ![t] = 0]
    /\ wire' = [wire EXCEPT ![t] = {}]
    /\ waits' = [waits EXCEPT ![t] = <<>>]
    /\ last_status' = [last_status EXCEPT ![t] = -1]
    /\ client_result' = [client_result EXCEPT ![t] = NoResult]
    /\ tool_result' = [tool_result EXCEPT ![t] = NoResult]
    /\ log' = [log EXCEPT ![t] = "none"]
    /\ UNCHANGED <<now, envVars, calls, limiterVars, probeVars, harnessVars>>

\* ------------------------------------------------------------ the server with its tools
InitTasks ==
    /\ calls = 0
    /\ pc = [t \in Tasks |-> "idle"]
    /\ call = [t \in Tasks |-> NoCall]
    /\ req = [t \in Tasks |-> NoRequest]
    /\ attempts = [t \in Tasks |-> 0]
    /\ throttled = [t \in Tasks |-> 0]
    /\ wire = [t \in Tasks |-> {}]
    /\ waits = [t \in Tasks |-> <<>>]
    /\ last_status = [t \in Tasks |-> -1]
    /\ client_result = [t \in Tasks |-> NoResult]
    /\ tool_result = [t \in Tasks |-> NoResult]
    /\ log = [t \in Tasks |-> "none"]

\* GreenhouseClient.__init__, lines 25-26
InitLimiterFields ==
    /\ request_count = 0
    /\ last_request_time = 0
    /\ wakeAt = 0
    /\ waited = 0
    /\ passed = 0

NoProbe == probeStart = -1 /\ probeCount = 0
NoHarness == method = "none" /\ args = <<>> /\ built = NoRequest

\* the module greenhouse_mcp once imported: client = None
Init ==
    /\ now = StartTime
    /\ env_key \in BOOLEAN
    /\ client = "None"
    /\ constructions = 0
    /\ InitLimiterFields
    /\ InitTasks
    /\ NoProbe
    /\ NoHarness

ToolsTick == Tick(MaxLoopTime) /\ UNCHANGED probeVars

\* the caller makes no more than MaxCalls tool calls
ToolCall(t, tool, ctx) ==
    /\ calls < MaxCalls
    /\ calls' = calls + 1
    /\ CallTool(t, tool, ctx, IdArgs)

\* one tool call at a time, over every tool, with and without a call context
Next ==
    \/ ToolsTick
    \/ \E tool \in ToolNames, ctx \in BOOLEAN : ToolCall(Caller, tool, ctx)
    \/ \E resp \in Responses : OnResponse(Caller, resp)
    \/ WakeUp(Caller)
    \/ Return(Caller)

Spec == Init /\ [][Next]_vars

\* ------------------------------------------------------------ concurrent tool calls
\* the tool and the responses of the runs with concurrent calls
LoopTools == {"get_job"}
LoopResponses == {r \in Responses : r.status \in {200, 429} /\ r.retry_after = Some("1")}

LoopTick == Tick(MaxCallTime) /\ UNCHANGED probeVars

\* calls go on until the request counter reaches its cap
LoopCall(t, tool) ==
    /\ request_count < MaxCount
    /\ UNCHANGED calls
    /\ CallTool(t, tool, FALSE, IdArgs)

InitLoop == Init /\ env_key

NextLoop ==
    \/ LoopTick
    \/ \E t \in Tasks, tool \in LoopTools : LoopCall(t, tool)
    \/ \E t \in Tasks, resp \in LoopResponses : OnResponse(t, resp)
    \/ \E t \in Tasks : WakeUp(t)
    \/ \E t \in Tasks : Return(t)

SpecLoop == InitLoop /\ [][NextLoop]_vars

\* ------------------------------------------------------------ the shared client
\* tool calls of two tasks, with and without an API key in the environment:
\* a tool whose Client call goes through the limiter and one whose Client call
\* raises right after get_client
SingletonTools == {"list_jobs", "get_job_stage"}

NextSingleton ==
    \/ ToolsTick
    \/ \E t \in Tasks, tool \in SingletonTools, ctx \in BOOLEAN : ToolCall(t, tool, ctx)
    \/ \E t \in Tasks, resp \in LoopResponses : OnResponse(t, resp)
    \/ \E t \in Tasks : WakeUp(t)
    \/ \E t \in Tasks : Return(t)

SpecSingleton == Init /\ [][NextSingleton]_vars

\* ------------------------------------------------------------ _make_request alone
\* one caller calling _make_request on a constructed client, again and again
SampleRequests == {get_job(7), create_candidate(CandidateData(DefaultArgs))}

MakeRequest(r) ==
    /\ pc[Caller] = "idle"
    /\ request_count < MaxCount
    /\ BeginRequest(Caller, r)
    /\ UNCHANGED <<now, envVars, calls, call, last_status, client_result, tool_result, log,
                   probeVars, harnessVars>>

InitClient ==
    /\ now = StartTime
    /\ env_key = TRUE
    /\ client = "Client"
    /\ constructions = 1
    /\ InitLimiterFields
    /\ InitTasks
    /\ NoProbe
    /\ NoHarness

RequestTick == Tick(MaxCallTime) /\ UNCHANGED probeVars

NextRequest ==
    \/ RequestTick
    \/ \E r \in SampleRequests : MakeRequest(r)
    \/ \E resp \in Responses : OnResponse(Caller, resp)
    \/ WakeUp(Caller)
    \/ Return(Caller)

SpecRequest == InitClient /\ [][NextRequest]_vars

\* ------------------------------------------------------------ _rate_limit alone
\* one caller calling _rate_limit on a constructed client, again and again
RateLimit ==
    /\ pc[Caller] = "idle"
    /\ request_count < MaxCount
    /\ EnterLimiter(Caller, "idle")
    /\ UNCHANGED <<now, envVars, calls, call, req, attempts, throttled, wire, waits,
                   last_status, client_result, tool_result, log, harnessVars>>

RateLimitResume ==
    /\ LeaveLimiter(Caller, "idle")
    /\ UNCHANGED <<now, envVars, calls, call, req, attempts, throttled, wire, waits,
                   last_status, client_result, tool_result, log, harnessVars>>

LimiterTick == Tick(MaxTime) /\ UNCHANGED probeVars

NextLimiter ==
    \/ LimiterTick
    \/ RateLimit /\ UNCHANGED probeVars
    \/ RateLimitResume /\ UNCHANGED probeVars

SpecLimiter == InitClient /\ [][NextLimiter]_vars

\* ------------------------------------------------------------ _rate_limit with a running clock
\* The clock goes on for as long as a call sleeps, and a time.sleep whose time
\* has passed returns.
LiveTick ==
    /\ \/ now < StartTime + MaxTime
       \/ pc[Caller] = "rate_wait" /\ now < wakeAt
    /\ now' = now + 1
    /\ UNCHANGED <<envVars, limiterVars, calls, taskVars, harnessVars, probeVars>>

\* calls are made up to the time StartTime + MaxTime
LiveCall ==
    /\ now <= StartTime + MaxTime
    /\ RateLimit
    /\ UNCHANGED probeVars

LiveResume == RateLimitResume /\ UNCHANGED probeVars

NextLimiterLive ==
    \/ LiveTick
    \/ LiveCall
    \/ LiveResume

SpecLimiterLive ==
    InitClient /\ [][NextLimiterLive]_vars /\ WF_vars(LiveTick) /\ WF_vars(LiveResume)

\* ------------------------------------------------------------ rate observer
\* An observer of the calls that pass the limiter: it takes one pass as the
\* start of an interval of rate_limit_window seconds, [probeStart,
\* probeStart + rate_limit_window), and counts the passes inside it.
ProbeTick ==
    IF probeStart >= 0 /\ now' >= probeStart + rate_limit_window
    THEN probeStart' = -2 /\ probeCount' = 0
    ELSE UNCHANGED <<probeStart, probeCount>>

ProbePass(t) ==
    IF pc'[t] = "rate_wait"
    THEN UNCHANGED <<probeStart, probeCount>>
    ELSE \/ probeStart < 0 /\ UNCHANGED <<probeStart, probeCount>>
         \/ probeStart = -1 /\ probeStart' = now /\ probeCount' = 1
         \/ probeStart >= 0 /\ probeStart' = probeStart /\ probeCount' = probeCount + 1

CeilingTick == Tick(MaxTime) /\ ProbeTick

NextCeiling ==
    \/ CeilingTick
    \/ RateLimit /\ ProbePass(Caller)
    \/ RateLimitResume /\ ProbePass(Caller)

SpecCeiling == InitClient /\ [][NextCeiling]_vars

\* ------------------------------------------------------------ request building alone
\* one tool called once with arguments of every shape: left out, given but
\* falsy, given and truthy
OptStrs == {None, Some(""), Some("x")}
OptInts == {None, Some(0), Some(7)}
OptIdLists == {None, Some(<<>>), Some(<<1, 2>>)}
OptTags == {None, Some(<<>>), Some(<<"vip">>)}
PerPages == {0, 50}

ListTools ==
    {"list_jobs", "list_candidates", "list_applications", "list_departments", "list_offices",
     "list_users"}
HarnessTools == ListTools \cup {"advance_application", "reject_application", "create_candidate"}

ArgSpace(tool) ==
    CASE tool = "list_jobs" ->
           {[DefaultArgs EXCEPT !.per_page = pp, !.status = st, !.created_after = ca,
                                !.created_before = cb] :
               pp \in PerPages, st \in OptStrs, ca \in OptStrs, cb \in OptStrs}
      [] tool = "list_candidates" ->
           {[DefaultArgs EXCEPT !.per_page = pp, !.email = em, !.candidate_ids = ids,
                                !.created_after = ca, !.created_before = cb] :
               pp \in PerPages, em \in OptStrs, ids \in OptIdLists, ca \in OptStrs,
               cb \in OptStrs}
      [] tool = "list_applications" ->
           {[DefaultArgs EXCEPT !.per_page = pp, !.job_id = j, !.candidate_id = c,
                                !.status = st, !.created_after = ca, !.created_before = cb] :
               pp \in PerPages, j \in OptInts, c \in OptInts, st \in OptStrs, ca \in OptStrs,
               cb \in OptStrs}
      [] tool \in {"list_departments", "list_offices"} ->
           {[DefaultArgs EXCEPT !.per_page = pp] : pp \in PerPages}
      [] tool = "list_users" ->
           {[DefaultArgs EXCEPT !.per_page = pp, !.email = em] :
               pp \in PerPages, em \in OptStrs}
      [] tool = "advance_application" ->
           {[DefaultArgs EXCEPT !.from_stage_id = f, !.to_stage_id = to] :
               f \in {0, 10}, to \in OptInts \cup {Some(20)}}
      [] tool = "reject_application" ->
           {[DefaultArgs EXCEPT !.rejection_reason_id = r, !.notes = n] :
               r \in OptInts, n \in OptStrs}
      [] tool = "create_candidate" ->
           {[DefaultArgs EXCEPT !.email = em, !.phone = ph, !.company = co, !.title = ti,
                                !.tags = tg] :
               em \in OptStrs, ph \in OptStrs, co \in OptStrs, ti \in OptStrs, tg \in OptTags}

InitParams ==
    /\ now = StartTime
    /\ env_key = TRUE
    /\ client = "Client"
    /\ constructions = 1
    /\ InitLimiterFields
    /\ InitTasks
    /\ NoProbe
    /\ method \in HarnessTools
    /\ args \in ArgSpace(method)
    /\ built = NoRequest

\* the tool function and the Client method, up to the call of _make_request
Build ==
    /\ built = NoRequest
    /\ built' = ToolRequest(method, args)
    /\ UNCHANGED <<now, envVars, limiterVars, calls, taskVars, probeVars, method, args>>

NextParams == Build

SpecParams == InitParams /\ [][NextParams]_vars

\* ------------------------------------------------------------ claims
\* a step in which task t's call of _rate_limit returns
LimiterPassed(t) ==
    /\ pc'[t] # "rate_wait"
    /\ <<request_count, last_request_time>>' # <<request_count, last_request_time>>

\* C1: when rate_limit_max calls have been counted in the current window, the
\* next call of _rate_limit returns no earlier than rate_limit_window seconds
\* after the start of that window
C1_DelayedToWindowEnd ==
    [][(LimiterPassed(Caller) /\ request_count >= rate_limit_max)
          => now' - last_request_time >= rate_limit_window]_vars

\* C1 witness: a call that found the window full has slept and has returned
C1_Witness ==
    /\ pc[Caller] = "idle"
    /\ waited > 0
    /\ request_count = 1
    /\ last_request_time = now
    /\ now >= wakeAt

\* C2: no interval of rate_limit_window seconds holds more than rate_limit_max
\* requests that passed the limiter
C2_RateCeiling == probeCount <= rate_limit_max

\* C3: while one call sleeps (in the limiter or after a 429), another call whose
\* response is due can go on
C3_WaitStallsNoOther ==
    \A t, u \in Tasks :
        (t # u /\ pc[t] \in SleepStates /\ pc[u] = "await")
            => ENABLED (\E resp \in LoopResponses : OnResponse(u, resp))

\* C4: calls do not interleave inside the limiter (at most one call is inside a
\* sleep at a time), and the counter is the number of calls let through since
\* the window last restarted
C4_NoLostUpdate ==
    /\ client = "Client" => request_count = passed
    /\ \A t, u \in Tasks : (pc[t] \in SleepStates /\ pc[u] \in SleepStates) => t = u

\* C4 witness: the window is full with the calls of both tasks, one of them
\* sleeping in the limiter while the other awaits its response
C4_Witness ==
    /\ request_count = rate_limit_max
    /\ passed = rate_limit_max
    /\ pc["a"] = "rate_wait"
    /\ pc["b"] = "await"

\* the wait a 429 asks for: its Retry-After, 10 seconds without the header
AskedSeconds(header) ==
    CASE header = None -> 10
      [] header = Some("0") -> 0
      [] header = Some("1") -> 1

\* the retry of a throttled call is on the wire
Retried(t) == pc[t] = "await" /\ throttled[t] > 0

\* C5 (as claimed): between a 429 and the retried request there is exactly one
\* wait, the one the 429 asks for
C5_OnlyRetryAfterWait ==
    \A t \in Tasks :
        Retried(t) =>
            /\ Len(waits[t]) = 1
            /\ waits[t][1].kind = "retry"
            /\ waits[t][1].secs = AskedSeconds(waits[t][1].header)

\* C5 (amended): between a 429 and the retried request there is exactly one
\* Retry-After wait, of the seconds the 429 asks for, and after it at most one
\* wait of the rate limiter, of 1 to rate_limit_window seconds
C5_RetryAfterThenLimiter ==
    \A t \in Tasks :
        Retried(t) =>
            /\ Len(waits[t]) \in {1, 2}
            /\ waits[t][1].kind = "retry"
            /\ waits[t][1].secs = AskedSeconds(waits[t][1].header)
            /\ Len(waits[t]) = 2 =>
                   /\ waits[t][2].kind = "rate"
                   /\ waits[t][2].secs \in 1..rate_limit_window
            /\ now >= wakeAt

\* C5 witness: a retry went out after the Retry-After wait and a wait of the limiter
C5_Witness ==
    \E t \in Tasks : Retried(t) /\ Len(waits[t]) = 2 /\ waits[t][1].secs = 1

IsHttpFailure(status) == status \in 400..599 /\ status # 429

\* C7: a response with a 4xx or 5xx status other than 429 ends the call at
\* once with an error: one request for it, no wait, no retry, no value
C7_ErrorNotRetried ==
    \A t \in Tasks :
        IsHttpFailure(last_status[t]) =>
            /\ pc[t] = "done"
            /\ client_result[t] = Raised("HTTPStatusError", last_status[t])
            /\ attempts[t] = throttled[t] + 1

\* C7 witness: a 404 that came after a retry has ended the call with an error
C7_Witness ==
    \E t \in Tasks :
        /\ last_status[t] = 404
        /\ throttled[t] > 0
        /\ pc[t] = "done"
        /\ client_result[t].kind = "raised"

\* C8: when the Client call of a tool raises, the tool call fails with that
\* error; a tool call returns a value only if its Client call returned it
C8_ToolReraises ==
    \A t \in Tasks :
        (pc[t] = "done" /\ call[t].tool # "none") =>
            /\ client_result[t].kind = "raised" => tool_result[t] = client_result[t]
            /\ tool_result[t].kind = "returned" => tool_result[t] = client_result[t]
            /\ tool_result[t].kind # "none"

\* C8 witness: a tool with a call context whose Client call raised on a 500
C8_Witness ==
    \E t \in Tasks :
        /\ pc[t] = "done"
        /\ call[t] = [tool |-> "create_candidate", ctx |-> TRUE]
        /\ client_result[t] = Raised("HTTPStatusError", 500)
        /\ tool_result[t] = Raised("HTTPStatusError", 500)
        /\ log[t] = "error"

\* the HTTP method and the first path segment of each tool's endpoint
Route(tool) ==
    CASE tool \in {"list_jobs", "get_job"} -> <<"GET", "jobs">>
      [] tool \in {"list_candidates", "get_candidate"} -> <<"GET", "candidates">>
      [] tool = "create_candidate" -> <<"POST", "candidates">>
      [] tool = "update_candidate" -> <<"PATCH", "candidates">>
      [] tool \in {"list_applications", "get_application"} -> <<"GET", "applications">>
      [] tool \in {"advance_application", "reject_application", "add_note_to_application"} ->
           <<"POST", "applications">>
      [] tool = "add_note_to_candidate" -> <<"POST", "candidates">>
      [] tool = "list_departments" -> <<"GET", "departments">>
      [] tool = "list_offices" -> <<"GET", "offices">>
      [] tool = "list_users" -> <<"GET", "users">>
      [] tool \in {"list_job_stages", "get_job_stage"} -> <<"GET", "job_stages">>

\* C9: with an API key, the call of any tool reaches _make_request with the
\* request of the tool's endpoint
C9_EveryToolReachesRequest ==
    \A t \in Tasks :
        (call[t].tool \in ToolNames /\ client = "Client") =>
            /\ req[t] # NoRequest
            /\ req[t].method = Route(call[t].tool)[1]
            /\ req[t].endpoint[1] = Route(call[t].tool)[2]

\* the optional filters of each list endpoint
OptionalFilters(tool) ==
    CASE tool = "list_jobs" -> {"created_before", "created_after", "status"}
      [] tool = "list_candidates" -> {"created_before", "created_after", "email", "candidate_ids"}
      [] tool = "list_applications" ->
           {"created_before", "created_after", "job_id", "candidate_id", "status"}
      [] tool = "list_users" -> {"email"}
      [] OTHER -> {}

\* C10: the query parameters of a list endpoint always have the keys per_page
\* and page, have no key for a filter the caller left out, and have no key
\* besides the endpoint's own
C10_UnsetFiltersLeftOut ==
    (built # NoRequest /\ method \in ListTools) =>
        /\ built.params # None
        /\ {"per_page", "page"} \subseteq DOMAIN built.params[1]
        /\ \A f \in OptionalFilters(method) : args[f] = None => f \notin DOMAIN built.params[1]
        /\ DOMAIN built.params[1] \subseteq {"per_page", "page"} \cup OptionalFilters(method)

\* C10 witness: list_applications called with a status and without a job_id
C10_Witness ==
    /\ built # NoRequest
    /\ method = "list_applications"
    /\ args.status = Some("x")
    /\ args.job_id = None
    /\ args.created_before = None
    /\ DOMAIN built.params[1] = {"per_page", "page", "status"}

\* C11: a 204 response ends the call with the empty record {} as its value,
\* not with a parsed body and not with an error, also after 429 retries
C11_NoContentIsEmptyRecord ==
    \A t \in Tasks :
        last_status[t] = 204 =>
            /\ pc[t] = "done"
            /\ client_result[t] = Returned("empty_record", 204)

\* C11 witness: a 204 that came after as many 429s as the server may give
C11_Witness ==
    \E t \in Tasks :
        /\ last_status[t] = 204
        /\ throttled[t] = Max429
        /\ attempts[t] = Max429 + 1
        /\ client_result[t] = Returned("empty_record", 204)

\* the request body built for the call, once it is built
Body == built.json[1]

\* C12: the body of advance_application has from_stage_id with the given
\* value, has to_stage_id exactly when the caller supplied one (then with the
\* supplied value), and has no other key
C12_AdvanceBody ==
    (built # NoRequest /\ method = "advance_application") =>
        /\ built.json # None
        /\ "from_stage_id" \in DOMAIN Body
        /\ Body["from_stage_id"] = args.from_stage_id
        /\ "to_stage_id" \in DOMAIN Body <=> args.to_stage_id # None
        /\ args.to_stage_id # None =>
               ("to_stage_id" \in DOMAIN Body /\ Body["to_stage_id"] = args.to_stage_id[1])
        /\ DOMAIN Body \subseteq {"from_stage_id", "to_stage_id"}

\* C13: the body of the create_candidate tool has first_name and last_name,
\* has email_addresses (one personal address) exactly when an email was
\* supplied, has phone_numbers (one mobile number) exactly when a phone was
\* supplied, and has company, title, tags only when supplied
C13_CreateCandidateBody ==
    (built # NoRequest /\ method = "create_candidate") =>
        /\ built.json # None
        /\ {"first_name", "last_name"} \subseteq DOMAIN Body
        /\ Body["first_name"] = args.first_name
        /\ Body["last_name"] = args.last_name
        /\ "email_addresses" \in DOMAIN Body <=> args.email # None
        /\ "email_addresses" \in DOMAIN Body =>
               Body["email_addresses"] = <<[value |-> args.email[1], type |-> "personal"]>>
        /\ "phone_numbers" \in DOMAIN Body <=> args.phone # None
        /\ "phone_numbers" \in DOMAIN Body =>
               Body["phone_numbers"] = <<[value |-> args.phone[1], type |-> "mobile"]>>
        /\ \A f \in {"company", "title", "tags"} :
               f \in DOMAIN Body => (args[f] # None /\ Body[f] = args[f][1])
        /\ DOMAIN Body \subseteq {"first_name", "last_name", "email_addresses", "phone_numbers",
                                  "company", "title", "tags"}

\* C14: a call of _rate_limit that restarts the window (the window had run
\* out, or the call had to sleep) returns with the counter at 1 and the window
\* start at the time of the restart
C14_CounterAfterReset ==
    [][(LimiterPassed(Caller) /\ last_request_time' # last_request_time)
          => (request_count' = 1 /\ last_request_time' = now')]_vars

\* C14 witness: more than rate_limit_window seconds after the window start a
\* call has restarted the window without sleeping
C14_Witness ==
    /\ pc[Caller] = "idle"
    /\ now > StartTime + rate_limit_window
    /\ last_request_time = now
    /\ request_count = 1
    /\ waited = 0
    /\ passed = 1

\* C15: the request counter is always between 0 and rate_limit_max
C15_CounterBounded == request_count \in 0..rate_limit_max

\* C16: the limiter's fields change exactly in the steps that put a request on
\* the wire, first tries and retries alike, and each such step charges one
\* call: the counter goes up by one, or to 1 when the window restarts; the
\* steps that take a response (a 429, an error status, a transport error,
\* a success) leave the counter as it is
C16_EveryAttemptCharged ==
    [][/\ (<<request_count, last_request_time>>' # <<request_count, last_request_time>>)
             <=> (attempts'[Caller] = attempts[Caller] + 1)
       /\ (attempts'[Caller] = attempts[Caller] + 1) =>
              /\ pc'[Caller] = "await"
              /\ request_count' =
                     IF last_request_time' # last_request_time THEN 1 ELSE request_count + 1]_vars

\* C16 witness: a call whose first request got a 429 and whose retry got an
\* error has ended, and both requests are counted
C16_Witness ==
    /\ pc[Caller] = "done"
    /\ throttled[Caller] = 1
    /\ attempts[Caller] = 2
    /\ client_result[Caller].kind = "raised"
    /\ request_count = 2
    /\ passed = 2

\* C17: get_client constructs at most one client, and only with an API key;
\* once constructed it is the client of every call, whose passes of the
\* limiter all go to its one counter; without a key every call raises
\* ValueError and the client stays unset
C17_OneSharedClient ==
    /\ constructions <= 1
    /\ client = "Client" <=> constructions = 1
    /\ client = "Client" => (env_key /\ request_count = passed)
    /\ \A t \in Tasks : pc[t] # "idle" => (client = "Client" <=> env_key)
    /\ ~env_key =>
           /\ client = "None"
           /\ request_count = 0
           /\ \A t \in Tasks :
                  /\ pc[t] \in {"idle", "done"}
                  /\ pc[t] = "done" => tool_result[t] = Raised("ValueError", 0)

\* C17 witness: two tasks have called tools, one client was constructed and
\* both requests are on its counter
C17_Witness ==
    /\ constructions = 1
    /\ pc["a"] = "await"
    /\ pc["b"] = "await"
    /\ request_count = 2
    /\ calls = 2

\* the form in which a supplied value goes out: a list of ids as the string
\* of its members joined by commas, any other value as it is
SentValue(f, v) == IF f = "candidate_ids" THEN JoinIds(v) ELSE v

\* the optional body fields of advance_application and reject_application
OptionalFields(tool) ==
    CASE tool = "advance_application" -> {"to_stage_id"}
      [] tool = "reject_application" -> {"rejection_reason_id", "notes"}
      [] OTHER -> {}

\* C18: a filter or optional body field the caller supplied (any value but
\* None: 0, "" and the empty list included) is a key of the query parameters
\* or of the body, with the supplied value
C18_SuppliedValuesSent ==
    built # NoRequest =>
        /\ \A f \in OptionalFilters(method) :
               args[f] # None =>
                   /\ f \in DOMAIN built.params[1]
                   /\ built.params[1][f] = SentValue(f, args[f][1])
        /\ \A f \in OptionalFields(method) :
               args[f] # None => (f \in DOMAIN Body /\ Body[f] = args[f][1])

\* C19: a call of _rate_limit sleeps only when it finds the counter at
\* rate_limit_max or above, asks for a sleep of more than 0 and at most
\* rate_limit_window seconds, sleeps once (the sleep over, it returns with
\* the call counted), and always returns
C19_BlocksOnceAndReturns ==
    /\ [](pc[Caller] = "rate_wait" =>
              /\ waited \in 1..rate_limit_window
              /\ wakeAt <= last_request_time + rate_limit_window)
    /\ [][(pc[Caller] # "rate_wait" /\ pc'[Caller] = "rate_wait")
             => request_count >= rate_limit_max]_vars
    /\ [][(pc[Caller] = "rate_wait" /\ pc'[Caller] # "rate_wait")
             => (pc'[Caller] = "idle" /\ request_count' = 1 /\ now >= wakeAt)]_vars
    /\ (pc[Caller] = "rate_wait") ~> (pc[Caller] = "idle")

\* C19 witness: a call that found the window full part of the way through it
\* has slept for the rest of the window and has returned
C19_Witness ==
    /\ pc[Caller] = "idle"
    /\ waited \in 1..(rate_limit_window - 1)
    /\ now = wakeAt
    /\ last_request_time = wakeAt
    /\ request_count = 1

====
